---- MODULE Spec2Model ----
(***************************************************************************)
(* Model of org-rs element/src/headline.rs: the headline parser's cursor   *)
(* scan (stars, whitespace, TODO keyword, priority cookie, cursor reset),  *)
(* the TodoKeyword::is_done classification, and the static patterns for    *)
(* planning lines and property drawers.                                    *)
(*                                                                         *)
(* Text is a sequence of one-character strings; offsets are 0-based as in  *)
(* the Rust source, so the character at offset p of text t is t[p + 1].    *)
(***************************************************************************)
EXTENDS Integers, Sequences, FiniteSets, TLC

VARIABLES
    input,          \* Parser::input, the immutable buffer
    cursor,         \* position of Parser::cursor
    oddLevelsOnly,  \* configuration: odd-levels-only flag (never read by the code)
    pc,             \* position inside headline_parser
    begin,          \* local `begin`
    limit,          \* argument `limit`
    level,          \* local `level`
    todo,           \* local `todo`
    priority,       \* local `priority`
    result,         \* how the last call ended
    calls,          \* number of calls made so far
    keyword,        \* TodoKeyword.0, the receiver of is_done
    doneKeywords,   \* configuration: the done-keyword subset (never read by the code)
    isDone,         \* value returned by TodoKeyword::is_done
    drawer,         \* outcome of matching REGEX_PROPERTY_DRAWER at the cursor
    closed,         \* HeadlineData::closed is set
    deadline,       \* HeadlineData::deadline is set
    scheduled       \* HeadlineData::scheduled is set

\* state of the headline scan
scan == <<cursor, pc, begin, limit, level, todo, priority, result, calls>>

\* state of the other operations
rest == <<keyword, doneKeywords, isDone, drawer, closed, deadline, scheduled>>

vars == <<input, oddLevelsOnly, scan, rest>>

----------------------------------------------------------------------------
(* Bounds of the model *)

MaxStars == 5
MaxCalls == 1
MaxLimitGap == 1
MaxPlanLines == 2
MaxDrawerLines == 4

----------------------------------------------------------------------------
(* Characters and small helpers *)

Blank == {" ", "\t"}

\* Rust regex \s (the ASCII part)
WhiteSpace == {" ", "\t", "\n", "\r", "\f"}

UpperToLower ==
    [c \in {"T", "O", "D", "N", "E", "P", "R", "I", "S", "K", "Y", "C", "L",
            "A", "H", "U"} |->
        CASE c = "T" -> "t" [] c = "O" -> "o" [] c = "D" -> "d" [] c = "N" -> "n"
          [] c = "E" -> "e" [] c = "P" -> "p" [] c = "R" -> "r" [] c = "I" -> "i"
          [] c = "S" -> "s" [] c = "K" -> "k" [] c = "Y" -> "y" [] c = "C" -> "c"
          [] c = "L" -> "l" [] c = "A" -> "a" [] c = "H" -> "h" [] c = "U" -> "u"]

\* case folding applied by the (?i) flag
Fold(c) == IF c \in DOMAIN UpperToLower THEN UpperToLower[c] ELSE c

Min(a, b) == IF a < b THEN a ELSE b

\* text from offset p on: &data[p..]
TextFrom(t, p) == SubSeq(t, p + 1, Len(t))

\* does the literal lit occur in t at offset p, compared exactly
LitAt(t, p, lit) ==
    /\ p >= 0
    /\ p + Len(lit) <= Len(t)
    /\ \A k \in 1..Len(lit) : t[p + k] = lit[k]

\* does the literal lit occur in t at offset p, compared under (?i)
LitAtCI(t, p, lit) ==
    /\ p >= 0
    /\ p + Len(lit) <= Len(t)
    /\ \A k \in 1..Len(lit) : Fold(t[p + k]) = Fold(lit[k])

\* offset reached from p by skipping characters of class cls, never beyond lim
RECURSIVE SkipFrom(_, _, _, _)
SkipFrom(t, p, cls, lim) ==
    IF p < lim /\ p < Len(t) /\ t[p + 1] \in cls
    THEN SkipFrom(t, p + 1, cls, lim)
    ELSE p

NoMatch == [start |-> -1, end |-> -1, g1s |-> -1, g1e |-> -1]

----------------------------------------------------------------------------
(* Pattern library *)

TODO_KW == <<"T", "O", "D", "O">>
DONE_KW == <<"D", "O", "N", "E">>

\* (?i)(TODO|DONE)[ \t] matching at offset p of t
TodoMatchesAt(t, p) ==
    /\ LitAtCI(t, p, TODO_KW) \/ LitAtCI(t, p, DONE_KW)
    /\ p + 4 < Len(t)
    /\ t[p + 5] \in Blank

\* REGEX_TODO: leftmost match of (?i)(TODO|DONE)[ \t] in t; group 1 is the keyword
REGEX_TODO(t) ==
    IF \E p \in 0..(Len(t) - 1) : TodoMatchesAt(t, p)
    THEN LET p == CHOOSE q \in 0..(Len(t) - 1) :
                      /\ TodoMatchesAt(t, q)
                      /\ \A r \in 0..(q - 1) : ~TodoMatchesAt(t, r)
         IN [start |-> p, end |-> p + 5, g1s |-> p, g1e |-> p + 4]
    ELSE NoMatch

\* \[#.\] matching at offset p of t (. is any character but a newline)
CookieAt(t, p) ==
    /\ p + 4 <= Len(t)
    /\ t[p + 1] = "["
    /\ t[p + 2] = "#"
    /\ t[p + 3] # "\n"
    /\ t[p + 4] = "]"

\* REGEX_HEADLINE_PRIORITY: leftmost match of \[#.\][ \t]* in t
REGEX_HEADLINE_PRIORITY(t) ==
    IF \E p \in 0..(Len(t) - 1) : CookieAt(t, p)
    THEN LET p == CHOOSE q \in 0..(Len(t) - 1) :
                      /\ CookieAt(t, q)
                      /\ \A r \in 0..(q - 1) : ~CookieAt(t, r)
         IN [start |-> p, end |-> SkipFrom(t, p + 4, Blank, Len(t)),
             g1s |-> -1, g1e |-> -1]
    ELSE NoMatch


\* REGEX_TODO_DONE: does (?i)DONE match somewhere in t
REGEX_TODO_DONE(t) == \E p \in 0..Len(t) : LitAtCI(t, p, DONE_KW)

ORG_CLOSED_STRING == <<"C", "L", "O", "S", "E", "D">>
ORG_DEADLINE_STRING == <<"D", "E", "A", "D", "L", "I", "N", "E">>
ORG_SCHEDULED_STRING == <<"S", "C", "H", "E", "D", "U", "L", "E", "D">>

PlanningKeywords == {ORG_CLOSED_STRING, ORG_DEADLINE_STRING, ORG_SCHEDULED_STRING}

\* the planning pattern with leading blanks skipped from the class cls
PlanningLineSkipping(t, cls) ==
    LET q == SkipFrom(t, 0, cls, Len(t))
    IN IF \E kw \in PlanningKeywords : LitAt(t, q, kw \o <<":">>)
       THEN LET kw == CHOOSE k \in PlanningKeywords : LitAt(t, q, k \o <<":">>)
            IN [start |-> 0, end |-> q + Len(kw) + 1,
                g1s |-> q, g1e |-> q + Len(kw) + 1]
       ELSE NoMatch

\* the planning pattern written with \s* for the leading blanks
REGEX_PLANNING_LINE_AnySpace(t) == PlanningLineSkipping(t, WhiteSpace)

\* REGEX_PLANNING_LINE: ^[ \t]*((?:CLOSED|DEADLINE|SCHEDULED):) on t; group 1 is
\* the keyword with its colon
REGEX_PLANNING_LINE(t) == PlanningLineSkipping(t, Blank)

PROPERTIES_LIT == <<":", "P", "R", "O", "P", "E", "R", "T", "I", "E", "S", ":">>
END_LIT == <<":", "E", "N", "D", ":">>

\* offset of the first newline of t at or after offset p, Len(t) when there is none
RECURSIVE FindNewline(_, _)
FindNewline(t, p) ==
    IF p >= Len(t) THEN Len(t)
    ELSE IF t[p + 1] = "\n" THEN p
    ELSE FindNewline(t, p + 1)

\* ^[ \t]*:PROPERTIES:[ \t]*\n at the start of t: the offset after the newline, or -1
OpenLineEnd(t) ==
    LET q == SkipFrom(t, 0, Blank, Len(t))
    IN IF LitAtCI(t, q, PROPERTIES_LIT)
       THEN LET r == SkipFrom(t, q + Len(PROPERTIES_LIT), Blank, Len(t))
            IN IF r < Len(t) /\ t[r + 1] = "\n" THEN r + 1 ELSE -1
       ELSE -1

\* [ \t]*:END:[ \t]* at offset p of t: the offset after the match, or -1
EndMatchEnd(t, p) ==
    LET q == SkipFrom(t, p, Blank, Len(t))
    IN IF LitAtCI(t, q, END_LIT)
       THEN SkipFrom(t, q + Len(END_LIT), Blank, Len(t))
       ELSE -1

\* what may follow the key on an interior line: (?: .*)?[ \t]* up to offset e
ValueOk(t, from, e) ==
    \/ from = e
    \/ t[from + 1] = " "
    \/ \A o \in from..(e - 1) : t[o + 1] \in Blank

\* the interior-line pattern without the colon that closes the key:
\* [ \t]*:\S+(?: .*)?[ \t]*\n
NodePropertyLineEndNoColon(t, p) ==
    LET e == FindNewline(t, p)
        q == SkipFrom(t, p, Blank, e)
    IN IF /\ e < Len(t)
          /\ q < e
          /\ t[q + 1] = ":"
          /\ \E j \in (q + 1)..(e - 1) :
                /\ \A o \in (q + 1)..j : t[o + 1] \notin WhiteSpace
                /\ ValueOk(t, j + 1, e)
       THEN e + 1
       ELSE -1

\* [ \t]*:\S+:(?: .*)?[ \t]*\n at offset p of t: the offset after the newline, or -1
NodePropertyLineEnd(t, p) ==
    LET e == FindNewline(t, p)
        q == SkipFrom(t, p, Blank, e)
    IN IF /\ e < Len(t)
          /\ q < e
          /\ t[q + 1] = ":"
          /\ \E j \in (q + 1)..(e - 2) :
                /\ \A o \in (q + 1)..j : t[o + 1] \notin WhiteSpace
                /\ t[j + 2] = ":"
                /\ ValueOk(t, j + 2, e)
       THEN e + 1
       ELSE -1

\* (?:interior line)*? followed by the :END: part, from offset p of t: the
\* offset after the match, or -1
RECURSIVE DrawerEnd(_, _)
DrawerEnd(t, p) ==
    IF EndMatchEnd(t, p) >= 0 THEN EndMatchEnd(t, p)
    ELSE IF p < Len(t) /\ NodePropertyLineEnd(t, p) >= 0
         THEN DrawerEnd(t, NodePropertyLineEnd(t, p))
         ELSE -1

\* REGEX_PROPERTY_DRAWER on t
REGEX_PROPERTY_DRAWER(t) ==
    LET o == OpenLineEnd(t)
    IN IF o >= 0 /\ DrawerEnd(t, o) >= 0
       THEN [start |-> 0, end |-> DrawerEnd(t, o), g1s |-> -1, g1e |-> -1]
       ELSE NoMatch

----------------------------------------------------------------------------
(* Cursor *)

\* Cursor::skip_chars_forward: the position reached; the count is the difference
skip_chars_forward(t, pos, cls, lim) == SkipFrom(t, pos, cls, lim)

\* Cursor::looking_at / Cursor::capturing_at: the pattern's match on the text
\* after the cursor, kept only when it starts at the cursor, in buffer offsets
looking_at(m, pos) ==
    IF m.start = 0
    THEN [start |-> pos, end |-> pos + m.end,
          g1s |-> pos + m.g1s, g1e |-> pos + m.g1e]
    ELSE NoMatch

----------------------------------------------------------------------------
(* Values *)

NoTodo == [some |-> FALSE, val |-> <<>>]
NoPriority == [some |-> FALSE, val |-> ""]

----------------------------------------------------------------------------
(* Inputs *)

RECURSIVE Stars(_)
Stars(n) == IF n = 0 THEN <<>> ELSE <<"*">> \o Stars(n - 1)

StarRuns == {Stars(n) : n \in 0..MaxStars}

Gaps == {<<>>, <<" ">>}

KeywordParts ==
    { <<>>,
      <<"T", "O", "D", "O", " ">>,
      <<"D", "O", "N", "E", "\t", " ">>,
      <<"t", "o", "d", "o", " ">>,
      <<"D", "o", "n", "e", " ">>,
      <<"T", "O", "D", "O">>,
      <<"x", " ", "T", "O", "D", "O", " ">> }

PriorityParts ==
    { <<>>,
      <<"[", "#", "A", "]", " ">>,
      <<"[", "#", "b", "]">>,
      <<"[", "#", "A">>,
      <<"y", "[", "#", "A", "]">> }

TitleParts ==
    { <<>>,
      <<"h", "\n", "*", " ", "D", "O", "N", "E", " ", "[", "#", "C", "]">> }

Buffers ==
    { s \o g \o k \o p \o t :
        s \in StarRuns, g \in Gaps, k \in KeywordParts, p \in PriorityParts,
        t \in TitleParts }

\* the limits a caller passes: before the cursor, a little after it, buffer end
Limits(t, pos) ==
    {0, Len(t)} \cup {Min(pos + d, Len(t)) : d \in 1..MaxLimitGap}

----------------------------------------------------------------------------
(* Parser::headline_parser *)

\* the operations outside the headline scan have not run
RestIdle ==
    /\ keyword = <<>>
    /\ doneKeywords = {}
    /\ isDone = FALSE
    /\ drawer = FALSE
    /\ closed = FALSE
    /\ deadline = FALSE
    /\ scheduled = FALSE

Init ==
    /\ input \in Buffers
    /\ oddLevelsOnly \in BOOLEAN
    /\ cursor = 0
    /\ pc = "idle"
    /\ begin = 0
    /\ limit = 0
    /\ level = 0
    /\ todo = NoTodo
    /\ priority = NoPriority
    /\ result = "none"
    /\ calls = 0
    /\ RestIdle

\* the caller positions the cursor between calls
Seek ==
    /\ pc \in {"idle", "panicked"}
    /\ calls < MaxCalls
    /\ \E p \in 0..Len(input) : cursor' = p
    /\ pc' = "idle"
    /\ begin' = 0
    /\ limit' = 0
    /\ level' = 0
    /\ todo' = NoTodo
    /\ priority' = NoPriority
    /\ result' = "none"
    /\ UNCHANGED <<rest, input, oddLevelsOnly, calls>>

\* is offset p of t the first character of a line that begins with at least one
\* asterisk followed by whitespace
ValidOpening(t, p) ==
    /\ p = 0 \/ t[p] = "\n"
    /\ LET q == SkipFrom(t, p, {"*"}, Len(t))
       IN /\ q > p
          /\ q < Len(t)
          /\ t[q + 1] \in WhiteSpace

\* Call with the precondition check the claim describes: a call away from a
\* headline opening ends at once with MalformedHeadline
CallChecked ==
    /\ pc \in {"idle", "panicked"}
    /\ calls < MaxCalls
    /\ \E lim \in Limits(input, cursor) : limit' = lim
    /\ begin' = cursor
    /\ level' = 0
    /\ todo' = NoTodo
    /\ priority' = NoPriority
    /\ calls' = calls + 1
    /\ IF ValidOpening(input, cursor)
       THEN result' = "none" /\ pc' = "stars"
       ELSE result' = "MalformedHeadline" /\ pc' = "panicked"
    /\ UNCHANGED <<rest, input, cursor, oddLevelsOnly>>

\* let mut cursor = self.cursor.borrow_mut(); let begin = cursor.pos();
Call ==
    /\ pc \in {"idle", "panicked"}
    /\ calls < MaxCalls
    /\ \E lim \in Limits(input, cursor) : limit' = lim
    /\ begin' = cursor
    /\ level' = 0
    /\ todo' = NoTodo
    /\ priority' = NoPriority
    /\ result' = "none"
    /\ calls' = calls + 1
    /\ pc' = "stars"
    /\ UNCHANGED <<rest, input, cursor, oddLevelsOnly>>

\* let level = cursor.skip_chars_forward("*", Some(limit));
SkipStars ==
    /\ pc = "stars"
    /\ cursor' = skip_chars_forward(input, cursor, {"*"}, limit)
    /\ level' = cursor' - cursor
    /\ pc' = "ws"
    /\ UNCHANGED <<rest, input, oddLevelsOnly, begin, limit, todo, priority, result, calls>>

\* cursor.skip_chars_forward(" \t", Some(limit));
SkipWhitespace ==
    /\ pc = "ws"
    /\ cursor' = skip_chars_forward(input, cursor, Blank, limit)
    /\ pc' = "todo"
    /\ UNCHANGED <<rest, input, oddLevelsOnly, begin, limit, level, todo, priority,
                   result, calls>>

\* Todo as it would be if the match offsets were relative to the cursor
TodoRelativeOffsets ==
    /\ pc = "todo"
    /\ LET m == REGEX_TODO(TextFrom(input, cursor))
       IN IF m.start # 0
          THEN /\ todo' = NoTodo
               /\ cursor' = cursor
          ELSE /\ cursor' = skip_chars_forward(input, m.end, Blank, limit)
               /\ todo' = [some |-> TRUE, val |-> SubSeq(input, m.g1s + 1, m.g1e)]
    /\ pc' = "prio"
    /\ UNCHANGED <<rest, input, oddLevelsOnly, begin, limit, level, priority, result, calls>>

\* let todo = match cursor.capturing_at(&*REGEX_TODO) { ... };
Todo ==
    /\ pc = "todo"
    /\ LET m == looking_at(REGEX_TODO(TextFrom(input, cursor)), cursor)
       IN IF m = NoMatch
          THEN /\ todo' = NoTodo
               /\ cursor' = cursor
          ELSE /\ cursor' = skip_chars_forward(input, m.end, Blank, limit)
               /\ todo' = [some |-> TRUE, val |-> SubSeq(input, m.g1s + 1, m.g1e)]
    /\ pc' = "prio"
    /\ UNCHANGED <<rest, input, oddLevelsOnly, begin, limit, level, priority, result, calls>>

\* let priority = match cursor.looking_at(&*REGEX_HEADLINE_PRIORITY) { ... }
Priority ==
    /\ pc = "prio"
    /\ LET m == looking_at(REGEX_HEADLINE_PRIORITY(TextFrom(input, cursor)), cursor)
       IN IF m = NoMatch
          THEN /\ priority' = NoPriority
               /\ cursor' = cursor
          ELSE /\ cursor' = m.end
               /\ priority' = [some |-> TRUE, val |-> ""]
    /\ pc' = "reset"
    /\ UNCHANGED <<rest, input, oddLevelsOnly, begin, limit, level, todo, result, calls>>

\* Reset as it would be without the cursor.set(begin)
ResetSkipped ==
    /\ pc = "reset"
    /\ cursor' = cursor
    /\ pc' = "unimplemented"
    /\ UNCHANGED <<rest, input, oddLevelsOnly, begin, limit, level, todo, priority,
                   result, calls>>

\* cursor.set(begin);
Reset ==
    /\ pc = "reset"
    /\ cursor' = begin
    /\ pc' = "unimplemented"
    /\ UNCHANGED <<rest, input, oddLevelsOnly, begin, limit, level, todo, priority,
                   result, calls>>

\* unimplemented!()
Unimplemented ==
    /\ pc = "unimplemented"
    /\ result' = "panic"
    /\ pc' = "panicked"
    /\ UNCHANGED <<rest, input, cursor, oddLevelsOnly, begin, limit, level, todo,
                   priority, calls>>

Next ==
    \/ Seek
    \/ Call
    \/ SkipStars
    \/ SkipWhitespace
    \/ Todo
    \/ Priority
    \/ Reset
    \/ Unimplemented

Spec == Init /\ [][Next]_vars

----------------------------------------------------------------------------
(* TodoKeyword::is_done *)

\* the headline scan has not run
ScanIdle ==
    /\ cursor = 0
    /\ pc = "idle"
    /\ begin = 0
    /\ limit = 0
    /\ level = 0
    /\ todo = NoTodo
    /\ priority = NoPriority
    /\ result = "none"
    /\ calls = 0

KeywordPrefixes == {<<>>, <<"U", "N">>, <<"x">>}

KeywordCores ==
    { TODO_KW, DONE_KW, <<"d", "o", "n", "e">>, <<"D", "o", "n", "e">>,
      <<"t", "o", "d", "o">>, <<"N", "E", "X", "T">>, <<"D", "O", "N">> }

KeywordSuffixes == {<<>>, <<"E">>, <<"S">>}

Keywords ==
    { a \o b \o c : a \in KeywordPrefixes, b \in KeywordCores, c \in KeywordSuffixes }

InitTodoKeyword ==
    /\ ScanIdle
    /\ input = <<>>
    /\ oddLevelsOnly = FALSE
    /\ keyword \in Keywords
    /\ doneKeywords \in SUBSET {TODO_KW, DONE_KW}
    /\ isDone = FALSE
    /\ drawer = FALSE
    /\ closed = FALSE
    /\ deadline = FALSE
    /\ scheduled = FALSE

\* fn is_done(&self) -> bool { REGEX_TODO_DONE.find(&self.0).is_some() }
is_done ==
    /\ pc = "idle"
    /\ isDone' = REGEX_TODO_DONE(keyword)
    /\ pc' = "classified"
    /\ UNCHANGED <<input, oddLevelsOnly, cursor, begin, limit, level, todo, priority,
                   result, calls, keyword, doneKeywords, drawer, closed, deadline,
                   scheduled>>

SpecTodoKeyword == InitTodoKeyword /\ [][is_done]_vars

----------------------------------------------------------------------------
(* Planning line *)

\* lines joined to one text, each preceded by a newline
RECURSIVE AppendLines(_, _)
AppendLines(t, ls) ==
    IF ls = <<>> THEN t
    ELSE AppendLines(t \o <<"\n">> \o Head(ls), SubSeq(ls, 2, Len(ls)))

HeadlineLine == <<"*", " ", "h">>

PlanLines ==
    { <<>>,
      <<" ", "\t">>,
      <<"D", "E", "A", "D", "L", "I", "N", "E", ":", " ", "t">>,
      <<" ", "S", "C", "H", "E", "D", "U", "L", "E", "D", ":", "t", " ",
        "C", "L", "O", "S", "E", "D", ":", "t">>,
      <<"\t", "C", "L", "O", "S", "E", "D", ":">>,
      <<"d", "e", "a", "d", "l", "i", "n", "e", ":", " ", "t">>,
      <<"x", " ", "D", "E", "A", "D", "L", "I", "N", "E", ":", " ", "t">>,
      <<"S", "C", "H", "E", "D", "U", "L", "E", "D", " ", "t">>,
      <<"D", "E", "A", "D", ":", "t">> }

PlanBuffers ==
    { AppendLines(HeadlineLine, ls) :
        ls \in UNION {[1..n -> PlanLines] : n \in 0..MaxPlanLines} }

InitPlanning ==
    /\ ScanIdle
    /\ RestIdle
    /\ input \in PlanBuffers
    /\ oddLevelsOnly = FALSE

\* offset of the line after the one holding offset p
NextLineStart(t, p) == Min(FindNewline(t, p) + 1, Len(t))

\* does the keyword kw with its colon occur in t between offsets from and to
KeywordBetween(t, kw, from, to) ==
    \E q \in from..to : q + Len(kw) + 1 <= to /\ LitAt(t, q, kw \o <<":">>)

\* the planning parser: looks at the line following the headline line and sets
\* the field of every planning keyword on the matched line
PlanningParser ==
    /\ pc = "idle"
    /\ LET p == NextLineStart(input, cursor)
           m == looking_at(REGEX_PLANNING_LINE(TextFrom(input, p)), p)
           e == FindNewline(input, m.g1s)
       IN IF m = NoMatch
          THEN /\ closed' = FALSE
               /\ deadline' = FALSE
               /\ scheduled' = FALSE
          ELSE /\ closed' = KeywordBetween(input, ORG_CLOSED_STRING, m.g1s, e)
               /\ deadline' = KeywordBetween(input, ORG_DEADLINE_STRING, m.g1s, e)
               /\ scheduled' = KeywordBetween(input, ORG_SCHEDULED_STRING, m.g1s, e)
    /\ result' = "ok"
    /\ pc' = "planned"
    /\ UNCHANGED <<input, oddLevelsOnly, cursor, begin, limit, level, todo, priority,
                   calls, keyword, doneKeywords, isDone, drawer>>

SpecPlanning == InitPlanning /\ [][PlanningParser]_vars

----------------------------------------------------------------------------
(* Property drawer *)

\* lines joined by newlines
JoinLines(ls) == AppendLines(Head(ls), SubSeq(ls, 2, Len(ls)))

DrawerLines ==
    { <<":", "P", "R", "O", "P", "E", "R", "T", "I", "E", "S", ":">>,
      <<" ", ":", "p", "r", "o", "p", "e", "r", "t", "i", "e", "s", ":", "\t">>,
      <<":", "E", "N", "D", ":">>,
      <<"\t", ":", "e", "n", "d", ":", " ">>,
      <<":", "K", "E", "Y", ":", " ", "v">>,
      <<" ", ":", "K", ":">>,
      <<":", "K", "E", "Y", " ", "v">>,
      <<":", "K", "E", "Y">>,
      <<"h">> }

DrawerBuffers ==
    { JoinLines(ls) : ls \in UNION {[1..n -> DrawerLines] : n \in 1..MaxDrawerLines} }

InitDrawer ==
    /\ ScanIdle
    /\ RestIdle
    /\ input \in DrawerBuffers
    /\ oddLevelsOnly = FALSE

\* the drawer pattern applied at the cursor
MatchPropertyDrawer ==
    /\ pc = "idle"
    /\ drawer' =
          (looking_at(REGEX_PROPERTY_DRAWER(TextFrom(input, cursor)), cursor) # NoMatch)
    /\ pc' = "matched"
    /\ UNCHANGED <<input, oddLevelsOnly, cursor, begin, limit, level, todo, priority,
                   result, calls, keyword, doneKeywords, isDone, closed, deadline,
                   scheduled>>

\* pub fn property_drawer_parser(...) { unimplemented!() }
property_drawer_parser ==
    /\ pc = "idle"
    /\ result' = "panic"
    /\ pc' = "panicked"
    /\ UNCHANGED <<input, oddLevelsOnly, cursor, begin, limit, level, todo, priority,
                   calls, rest>>

NextDrawer ==
    \/ MatchPropertyDrawer
    \/ property_drawer_parser

SpecDrawer == InitDrawer /\ [][NextDrawer]_vars

----------------------------------------------------------------------------
(* Properties of headline_parser *)

\* the scan is past the named step of the current call
PastStars == pc \in {"ws", "todo", "prio", "reset", "unimplemented", "panicked"}
Returned == pc = "panicked"

\* number of consecutive asterisks at offset p of t, not counting beyond lim
RawStarCount(t, p, lim) ==
    CHOOSE n \in 0..Len(t) :
        /\ \A k \in 1..n : p + k <= Len(t) /\ p + k <= lim /\ t[p + k] = "*"
        /\ ~(p + n + 1 <= Len(t) /\ p + n + 1 <= lim /\ t[p + n + 1] = "*")

\* the configured reduction of a raw level: identity, or ceil(raw/2) under
\* odd-levels-only
ReducedLevel(raw) == IF oddLevelsOnly THEN (raw + 1) \div 2 ELSE raw

\* the configured TODO keyword set
ConfiguredKeywords == {TODO_KW, DONE_KW}

\* a configured keyword, compared exactly, stands at offset p of t followed by
\* a whitespace character
KeywordAt(t, p) ==
    \E kw \in ConfiguredKeywords :
        /\ LitAt(t, p, kw)
        /\ p + Len(kw) < Len(t)
        /\ t[p + Len(kw) + 1] \in Blank

\* C2: the level equals the configured reduction of the raw count of leading
\* asterisks: the raw count by default, ceil(raw/2) under odd-levels-only
\* (five asterisks give level 3).
C2_LevelIsReducedStarCount ==
    PastStars => level = ReducedLevel(RawStarCount(input, begin, limit))

\* the step relation of C3_TodoKeywordCaseSensitive
TodoStepAsClaimed ==
    pc = "todo" =>
       /\ todo'.some <=> KeywordAt(input, cursor)
       /\ todo'.some =>
             /\ todo'.val \in ConfiguredKeywords
             /\ LitAt(input, cursor, todo'.val)
             /\ cursor' >= cursor + Len(todo'.val) + 1
       /\ ~todo'.some => cursor' = cursor

\* C3: the TODO keyword is recognised only by a case-sensitive match of a
\* configured keyword at the cursor followed by whitespace; on a match the
\* recorded keyword is the keyword text and the cursor moves past the keyword
\* and the whitespace; otherwise no keyword is recorded.
C3_TodoKeywordCaseSensitive == [][TodoStepAsClaimed]_vars

\* the step relation of C5_CursorNeverMovesBackward
NoBackwardStep ==
    pc \in {"stars", "ws", "todo", "prio", "reset", "unimplemented"} =>
       cursor' >= cursor

\* C5 as claimed: during a call every cursor position set is at or after the
\* previous one, up to the return of the call.
C5_CursorNeverMovesBackward == [][NoBackwardStep]_vars

\* the step relation of C5_CursorMonotonicUntilReset
ForwardUntilResetStep ==
    /\ pc \in {"stars", "ws", "todo", "prio"} => cursor' >= cursor
    /\ pc = "reset" => cursor' = begin /\ cursor' <= cursor
    /\ pc = "unimplemented" => cursor' = cursor

\* C5 as amended: the cursor only moves forward through the scanning steps
\* (stars, whitespace, TODO keyword, priority cookie); the one backward move of
\* a call is the final reset of the cursor to begin.
C5_CursorMonotonicUntilReset == [][ForwardUntilResetStep]_vars

\* a call at a later headline whose scan moved the cursor over a keyword and a cookie
C5_Witness ==
    /\ pc = "reset"
    /\ begin > 0
    /\ ValidOpening(input, begin)
    /\ level >= 1
    /\ todo.some
    /\ priority.some
    /\ cursor > begin + level

\* C8 as claimed: a call at a position that is not a headline opening fails
\* with MalformedHeadline.
C8_MalformedHeadlineOnBadPosition ==
    (Returned /\ ~ValidOpening(input, begin)) => result = "MalformedHeadline"

\* C8 as amended: a call at a position that is not a headline opening is not
\* checked and raises no MalformedHeadline: it scans as at any position (level
\* is the number of asterisks at the cursor, possibly 0), resets the cursor
\* and ends at unimplemented!(), producing no headline.
C8_NoPreconditionCheck ==
    (Returned /\ ~ValidOpening(input, begin)) =>
        /\ result = "panic"
        /\ level = RawStarCount(input, begin, limit)
        /\ cursor = begin

\* a call in the middle of a line, at asterisks, that ran to the end
C8_Witness ==
    /\ Returned
    /\ ~ValidOpening(input, begin)
    /\ begin > 0
    /\ level > 0
    /\ result = "panic"

\* the step relation of C9_PriorityIsCookieCharacter
PriorityStepAsClaimed ==
    pc = "prio" =>
       IF CookieAt(input, cursor)
       THEN /\ priority'.some
            /\ priority'.val = input[cursor + 3]
            /\ cursor' = SkipFrom(input, cursor + 4, Blank, Len(input))
       ELSE /\ ~priority'.some
            /\ cursor' = cursor

\* C9: when the text at the cursor after the optional TODO keyword has the
\* shape [#X] optionally followed by spaces or tabs, the recorded priority is X
\* and the cursor moves past the cookie and its trailing whitespace; otherwise
\* the priority is absent and the cursor does not move.
C9_PriorityIsCookieCharacter == [][PriorityStepAsClaimed]_vars

\* C10: after the level, TODO keyword and priority are extracted the cursor is
\* back at the position it had at call entry, whatever matched.
C10_CursorResetToBegin ==
    pc \in {"unimplemented", "panicked"} => cursor = begin

\* a call away from offset 0 whose scan moved over a keyword and a cookie
C10_Witness ==
    /\ Returned
    /\ begin > 0
    /\ ValidOpening(input, begin)
    /\ level >= 1
    /\ todo.some
    /\ priority.some
    /\ cursor = begin

----------------------------------------------------------------------------
(* Properties of is_done, the planning line and the property drawer *)

\* C4: a TodoKeyword is classified as done if and only if it is a member of
\* the configured done-keyword subset, not by matching its text against a
\* literal pattern.
C4_DoneIffInDoneSubset ==
    pc = "classified" => (isDone <=> keyword \in doneKeywords)

\* the lines of t, split at newlines
RECURSIVE LinesFrom(_, _)
LinesFrom(t, p) ==
    LET e == FindNewline(t, p)
    IN IF e >= Len(t) THEN <<SubSeq(t, p + 1, Len(t))>>
       ELSE <<SubSeq(t, p + 1, e)>> \o LinesFrom(t, e + 1)

Lines(t) == LinesFrom(t, 0)

AllBlank(l) == \A k \in 1..Len(l) : l[k] \in Blank

\* the line begins, after optional spaces and tabs, with CLOSED:, DEADLINE: or
\* SCHEDULED: in exactly this case
BeginsWithPlanningKeyword(l) ==
    \E n \in 0..Len(l) :
        /\ \A k \in 1..n : l[k] \in Blank
        /\ \E kw \in PlanningKeywords : LitAt(l, n, kw \o <<":">>)

\* the line immediately following the headline line, empty when there is none
FollowingLine(t) == IF Len(Lines(t)) >= 2 THEN Lines(t)[2] ELSE <<>>

IsOpenLine(l) ==
    \E a \in 0..Len(l) :
        /\ \A k \in 1..a : l[k] \in Blank
        /\ LitAtCI(l, a, PROPERTIES_LIT)
        /\ \A k \in (a + Len(PROPERTIES_LIT) + 1)..Len(l) : l[k] \in Blank

\* the line is blanks, :END: in any case, blanks
IsEndLine(l) ==
    \E a \in 0..Len(l) :
        /\ \A k \in 1..a : l[k] \in Blank
        /\ LitAtCI(l, a, END_LIT)
        /\ \A k \in (a + Len(END_LIT) + 1)..Len(l) : l[k] \in Blank

KeyChar(c) == c \notin WhiteSpace /\ c # ":"

\* the line is :KEY: or :KEY: VALUE, the key without whitespace or colon
IsNodePropertyLine(l) ==
    \E a \in 0..Len(l) : \E n \in 1..Len(l) :
        /\ \A k \in 1..a : l[k] \in Blank
        /\ a + n + 2 <= Len(l)
        /\ l[a + 1] = ":"
        /\ \A k \in (a + 2)..(a + n + 1) : KeyChar(l[k])
        /\ l[a + n + 2] = ":"
        /\ a + n + 2 = Len(l) \/ l[a + n + 3] = " "

\* the line opens a key with a colon but the key lacks its closing colon
IsMalformedKeyLine(l) ==
    \E a \in 0..Len(l) : \E n \in 1..Len(l) :
        /\ \A k \in 1..a : l[k] \in Blank
        /\ a + n + 1 <= Len(l)
        /\ l[a + 1] = ":"
        /\ \A k \in (a + 2)..(a + n + 1) : KeyChar(l[k])
        /\ a + n + 1 = Len(l) \/ l[a + n + 2] \in WhiteSpace

\* the block opens with :PROPERTIES:, closes with :END:, and its interior lines
\* are well-formed but for at least one malformed key line
DrawerWithMalformedLine(ls) ==
    /\ Len(ls) >= 3
    /\ IsOpenLine(ls[1])
    /\ IsEndLine(ls[Len(ls)])
    /\ \E j \in 2..(Len(ls) - 1) : IsMalformedKeyLine(ls[j])
    /\ \A j \in 2..(Len(ls) - 1) :
          /\ IsMalformedKeyLine(ls[j]) \/ IsNodePropertyLine(ls[j])
          /\ ~IsEndLine(ls[j])

====
